---- MODULE Spec2Model ----
(***************************************************************************)
(* Project-GIA: the Firestore data-access facade (firebase/services.js)    *)
(* and the student dashboard view (src/pages/DashboardPage.jsx).           *)
(*                                                                         *)
(* One collection ('students') is modelled.  A stored document is a        *)
(* function from field names to values; the store is a function whose      *)
(* domain is the set of identifiers that currently hold a document.        *)
(* Timestamps are the millisecond clock readings behind                    *)
(* new Date().toISOString(): the fixed-width UTC text orders exactly as    *)
(* the readings do, so the readings stand for the text.                    *)
(***************************************************************************)
EXTENDS Integers, Sequences, FiniteSets, TLC

VARIABLES
    store,      \* the collection: [existing document ids -> document data]
    now,        \* the client's millisecond clock
    online,     \* TRUE while the transport to the store works
    pending,    \* the facade write called and not yet answered by the store
    usedIds,    \* identifiers addDoc has generated or setDocument has named so far
    created,    \* history: createdAt stamped when each existing record was created
    lastEvent,  \* history: the write of `pending` the store answered last
    listeners,  \* the subscriptions made through listenToCollection/listenToDocument
    callerSaw,  \* per subscription, what the caller's callback was last called with
    consoleLog, \* per subscription, whether the facade's error handler logged an error
    mounted,    \* DashboardPage: the mount effect has run
    students,   \* useState([]): the list shown
    loading,    \* useState(true)
    showModal,  \* useState(false)
    editingId,  \* useState(null)
    formData,   \* useState({studentId: '', name: '', course: '', yearLevel: '', email: ''})
    reloads,    \* loadStudents calls in flight, oldest first
    calls,      \* handleSubmit/handleDelete calls awaiting the facade
    notice,     \* the dialog (alert or confirm) the view showed last
    lastLoad    \* history: the reload that called setStudents last

facadeVars == <<store, now, online, pending, usedIds, created, lastEvent>>
listenVars == <<listeners, callerSaw, consoleLog>>
formVars == <<showModal, editingId, formData>>
viewVars == <<mounted, students, loading, formVars, reloads, calls, notice, lastLoad>>

(* ------------------------------ bounds -------------------------------- *)

MaxTime == 1        \* the clock stops ticking here
MaxInFlight == 2    \* the view's facade calls (reloads, saves, deletes) in flight at once

DocIds == {"d1", "d2"}

(* Data objects a caller passes to addDocument/setDocument/updateDocument. *)
(* 9 is a caller-supplied timestamp no clock reading of the model equals.  *)
UserData ==
    << [name |-> "a"],
       [id |-> "x", name |-> "b"],
       [createdAt |-> 9, updatedAt |-> 9] >>

EmptyRec == [f \in {} |-> ""]

(* The form's fields, in the order of the form, and what the user types    *)
(* into them: the fields are filled from the top, each with "a".           *)
FormOrder == <<"studentId", "name", "course", "yearLevel", "email">>
FormFields == {FormOrder[i] : i \in 1..Len(FormOrder)}
Typed(form, f) ==
    IF \E i \in 1..Len(FormOrder) :
          /\ FormOrder[i] = f
          /\ form[f] = ""
          /\ \A j \in 1..(i - 1) : form[FormOrder[j]] # ""
    THEN {"a"}
    ELSE {}
EmptyForm == [f \in FormFields |-> ""]

(* null; `if (editingId)` takes null and '' as false. *)
Null == "null"
Truthy(x) == x \notin {Null, ""}

(* null and 0 are both falsy in `if (limitCount)` and `if (orderByField)`. *)
NoLimit == 0
NoField == ""

TimeFields == {"createdAt", "updatedAt"}

(* --------------------------- payload builders -------------------------- *)

(* { ...data, createdAt: new Date()..., updatedAt: new Date()... }:        *)
(* later keys win, so the stamps override data's own fields.  t1 and t2    *)
(* are the two clock readings.                                             *)
StampBoth(data, t1, t2) == [createdAt |-> t1, updatedAt |-> t2] @@ data

(* { ...data, updatedAt: new Date()... } *)
UpdatePayload(data, t) == [updatedAt |-> t] @@ data

(* A merge that keeps nothing of the document (what setDoc does). *)
MergeReplacesAll(old, payload) == payload

(* updateDoc: the fields of the payload replace the document's, the other  *)
(* fields of the document stay.                                            *)
Merge(old, payload) == payload @@ old

(* { id: doc.id, ...doc.data() }: the spread comes last, so a stored field *)
(* named id overrides the identifier.                                      *)
WithId(docId, data) == data @@ [id |-> docId]

(* ------------------------------ the store ------------------------------ *)

Remove(st, id) == [x \in DOMAIN st \ {id} |-> st[x]]

Put(st, id, data) == (id :> data) @@ st

(* What the store does with a write: addDoc and setDoc create or replace,  *)
(* updateDoc merges and rejects a missing document, deleteDoc removes and  *)
(* accepts a missing document.                                             *)
ApplyWrite(st, w) ==
    CASE w.op \in {"add", "set"} -> [ok |-> TRUE, store |-> Put(st, w.id, w.payload)]
      [] w.op = "update" ->
            IF w.id \in DOMAIN st
            THEN [ok |-> TRUE, store |-> Put(st, w.id, Merge(st[w.id], w.payload))]
            ELSE [ok |-> FALSE, store |-> st]
      [] w.op = "delete" -> [ok |-> TRUE, store |-> Remove(st, w.id)]

(* ------------------------------- reads --------------------------------- *)

(* Firestore returns documents in the order of the orderBy keys and then   *)
(* of the document identifier; these sequences give the order of the       *)
(* strings of the model.                                                   *)
IdOrder == <<"d1", "d2">>
StrOrder == <<"", "a", "b", "x">>

IdRank(id) == CHOOSE n \in 1..Len(IdOrder) : IdOrder[n] = id
StrRank(s) == CHOOSE n \in 1..Len(StrOrder) : StrOrder[n] = s

(* where(field, operator, value): a document without the field never      *)
(* matches.                                                                *)
Matches(data, cond) ==
    /\ cond.field \in DOMAIN data
    /\ CASE cond.op = "==" -> data[cond.field] = cond.value
         [] cond.op = "!=" -> data[cond.field] # cond.value
         [] cond.op = "<"  -> data[cond.field] < cond.value
         [] cond.op = ">=" -> data[cond.field] >= cond.value

MatchesAll(data, conds) == \A i \in 1..Len(conds) : Matches(data, conds[i])

SortKey(data, f) == IF f \in TimeFields THEN data[f] ELSE StrRank(data[f])

(* collection(db, name): every document the collection holds.             *)
CollectionDocs(st) == DOMAIN st

(* The documents S of st in the order of a snapshot: by the orderBy field  *)
(* when one is given, then by identifier.                                  *)
Before(st, orderByField, x, y) ==
    IF orderByField # NoField
       /\ SortKey(st[x], orderByField) # SortKey(st[y], orderByField)
    THEN SortKey(st[x], orderByField) < SortKey(st[y], orderByField)
    ELSE IdRank(x) < IdRank(y)

InOrder(S, st, orderByField) ==
    [i \in 1..Cardinality(S) |->
        CHOOSE x \in S : Cardinality({y \in S : Before(st, orderByField, y, x)}) = i - 1]

(* A query that applies limit(limitCount) whenever a number is given, 0    *)
(* included.                                                               *)
QueryIdsLimitAlways(st, conds, orderByField, limitCount) ==
    LET hit == {x \in CollectionDocs(st) : MatchesAll(st[x], conds)}
        all == InOrder(hit, st, NoField)
    IN  IF limitCount < Len(all) THEN SubSeq(all, 1, limitCount) ELSE all

(* getDocs(query(collection, ...constraints)): the identifiers of the      *)
(* documents of the snapshot, in the snapshot's order.  orderBy(f) leaves  *)
(* out the documents without f; limit(n) keeps the first n.                *)
QueryIds(st, conds, orderByField, limitCount) ==
    LET hit == {x \in CollectionDocs(st) :
                   /\ MatchesAll(st[x], conds)
                   /\ orderByField # NoField => orderByField \in DOMAIN st[x]}
        all == InOrder(hit, st, orderByField)
    IN  IF limitCount # NoLimit /\ limitCount < Len(all)
        THEN SubSeq(all, 1, limitCount)
        ELSE all

(* querySnapshot.forEach(doc => documents.push({ id: doc.id, ...doc.data() })) *)
Annotate(st, ids) == [i \in 1..Len(ids) |-> WithId(ids[i], st[ids[i]])]

(* A read is answered with the documents, or rejected when the transport   *)
(* is down (the facade rethrows).                                          *)
Failed == [ok |-> FALSE, docs |-> <<>>]

getAllDocuments(st, up) ==
    IF up THEN [ok |-> TRUE, docs |-> Annotate(st, InOrder(CollectionDocs(st), st, NoField))]
    ELSE Failed

queryDocuments(st, up, conds, orderByField, limitCount) ==
    IF up
    THEN [ok |-> TRUE,
          docs |-> Annotate(st, QueryIds(st, conds, orderByField, limitCount))]
    ELSE Failed

(* getDocument: the annotated document, or null (here: found = FALSE).     *)
getDocument(st, up, id) ==
    IF ~up THEN [ok |-> FALSE, found |-> FALSE, doc |-> EmptyRec]
    ELSE IF id \in DOMAIN st
         THEN [ok |-> TRUE, found |-> TRUE, doc |-> WithId(id, st[id])]
         ELSE [ok |-> TRUE, found |-> FALSE, doc |-> EmptyRec]

(* ----------------------------- listeners ------------------------------ *)

(* Two subscriptions are followed: "col" is made by listenToCollection,    *)
(* "doc" by listenToDocument.                                              *)
SubIds == {"col", "doc"}

(* The where-conditions listenToCollection is called with. *)
ListenConds == << <<>>, <<[field |-> "name", op |-> "==", value |-> "a"]>> >>

NoListener == [status |-> "none", q |-> 1, docId |-> "", due |-> FALSE]

(* What onSnapshot hands to the listener's first function for the store    *)
(* as it is: the facade's argument to the caller's callback.  For a        *)
(* document listener, <<>> stands for callback(null).                      *)
SnapshotFor(l, st) ==
    IF l.docId = ""
    THEN Annotate(st, QueryIds(st, ListenConds[l.q], NoField, NoLimit))
    ELSE IF l.docId \in DOMAIN st THEN <<WithId(l.docId, st[l.docId])>> ELSE <<>>

(* A change of the store makes a snapshot due on every active listener     *)
(* whose result it changes.                                                *)
Notify(ls, st, st2) ==
    [s \in SubIds |->
        IF ls[s].status = "active" /\ SnapshotFor(ls[s], st) # SnapshotFor(ls[s], st2)
        THEN [ls[s] EXCEPT !.due = TRUE]
        ELSE ls[s]]

(* listenToCollection(name, callback, conditions): onSnapshot(q, ...); the *)
(* first snapshot is due at once.                                          *)
listenToCollection(q) ==
    /\ listeners["col"].status = "none"
    /\ listeners' = [listeners EXCEPT
                        !["col"] = [status |-> "active", q |-> q, docId |-> "", due |-> TRUE]]
    /\ UNCHANGED <<facadeVars, callerSaw, consoleLog, viewVars>>

listenToDocument(id) ==
    /\ listeners["doc"].status = "none"
    /\ listeners' = [listeners EXCEPT
                        !["doc"] = [status |-> "active", q |-> 1, docId |-> id, due |-> TRUE]]
    /\ UNCHANGED <<facadeVars, callerSaw, consoleLog, viewVars>>

(* onSnapshot's first function: the facade annotates the documents and     *)
(* calls the caller's callback.                                            *)
OnSnapshot(s) ==
    /\ listeners[s].status = "active"
    /\ listeners[s].due
    /\ listeners' = [listeners EXCEPT ![s].due = FALSE]
    /\ callerSaw' = [callerSaw EXCEPT
                        ![s] = [kind |-> "change", value |-> SnapshotFor(listeners[s], store)]]
    /\ UNCHANGED <<facadeVars, consoleLog, viewVars>>

(* onSnapshot's second function: the SDK reports a failure and ends the    *)
(* listener; the facade's handler is console.error(...) and nothing else.  *)
OnError(s) ==
    /\ listeners[s].status = "active"
    /\ listeners' = [listeners EXCEPT ![s].status = "failed", ![s].due = FALSE]
    /\ consoleLog' = [consoleLog EXCEPT ![s] = TRUE]
    /\ UNCHANGED <<facadeVars, callerSaw, viewVars>>

(* The function the facade returns. *)
Unsubscribe(s) ==
    /\ listeners[s].status \in {"active", "failed"}
    /\ listeners' = [listeners EXCEPT ![s].status = "closed", ![s].due = FALSE]
    /\ UNCHANGED <<facadeVars, callerSaw, consoleLog, viewVars>>

(* --------------------------- facade writes ----------------------------- *)

Write(op, id, data, payload, t) ==
    [op |-> op, id |-> id, data |-> data, payload |-> payload, t |-> t]

NoEvent == [op |-> "none", ok |-> FALSE]

(* The facade's callers await each call: one write is in flight at a time. *)
CanCall == pending = {}

(* addDoc's generated identifier: one no call has used or named.  The     *)
(* identifiers are opaque, so the first unused one stands for any.         *)
HasFreshId == DocIds \ usedIds # {}
FreshId == CHOOSE id \in DocIds \ usedIds : \A x \in DocIds \ usedIds : IdRank(id) <= IdRank(x)

(* addDocument: addDoc generates a fresh identifier; the two stamps are    *)
(* two readings of the clock, which may tick between them.                 *)
addDocument(data) ==
    /\ CanCall
    /\ HasFreshId
    /\ \E d \in 0..1 :
          /\ now + d <= MaxTime
          /\ pending' = pending \cup
                {Write("add", FreshId, data, StampBoth(data, now, now + d), now + d)}
          /\ usedIds' = usedIds \cup {FreshId}
          /\ now' = now + d
    /\ UNCHANGED <<store, online, created, lastEvent, listenVars, viewVars>>

(* setDocument: the caller names the identifier. *)
setDocument(id, data) ==
    /\ CanCall
    /\ \E d \in 0..1 :
          /\ now + d <= MaxTime
          /\ pending' = pending \cup
                {Write("set", id, data, StampBoth(data, now, now + d), now + d)}
          /\ now' = now + d
    /\ usedIds' = usedIds \cup {id}
    /\ UNCHANGED <<store, online, created, lastEvent, listenVars, viewVars>>

updateDocument(id, data) ==
    /\ CanCall
    /\ pending' = pending \cup {Write("update", id, data, UpdatePayload(data, now), now)}
    /\ UNCHANGED <<store, now, online, usedIds, created, lastEvent, listenVars, viewVars>>

deleteDocument(id) ==
    /\ CanCall
    /\ pending' = pending \cup {Write("delete", id, EmptyRec, EmptyRec, now)}
    /\ UNCHANGED <<store, now, online, usedIds, created, lastEvent, listenVars, viewVars>>

(* The createdAt a record was created with: stamped when a write creates   *)
(* the record, kept while it exists, dropped when it is deleted.           *)
CreatedAfter(st, cr, w, res) ==
    [x \in DOMAIN res.store |->
        IF x = w.id /\ x \notin DOMAIN st THEN res.store[x].createdAt ELSE cr[x]]

Event(w, ok) == [op |-> w.op, ok |-> ok]

(* What the answer to write w leaves behind. *)
Answered(w, res) ==
    /\ store' = res.store
    /\ created' = CreatedAfter(store, created, w, res)
    /\ listeners' = Notify(listeners, store, res.store)

(* The store's answer to w: rejected while the transport is down. *)
Answer(w) == IF online THEN ApplyWrite(store, w) ELSE [ok |-> FALSE, store |-> store]

(* The store answers the pending write: the awaited promise resolves, or   *)
(* rejects and the facade rethrows.                                        *)
StoreAnswer(w) ==
    /\ w \in pending
    /\ pending' = pending \ {w}
    /\ Answered(w, Answer(w))
    /\ lastEvent' = Event(w, Answer(w).ok)
    /\ UNCHANGED <<now, online, usedIds, callerSaw, consoleLog, viewVars>>

Tick ==
    /\ now < MaxTime
    /\ now' = now + 1
    /\ UNCHANGED <<store, online, pending, usedIds, created, lastEvent, listenVars, viewVars>>

(* The transport to the store goes down or comes back. *)
Transport ==
    /\ online' = ~online
    /\ UNCHANGED <<store, now, pending, usedIds, created, lastEvent, listenVars, viewVars>>

(* ------------------------- DashboardPage ------------------------------- *)

InFlight == Len(reloads) + Cardinality(calls)

(* loadStudents up to its await: setLoading(true); getAllDocuments(...). *)
LoadStudents ==
    /\ loading' = TRUE
    /\ reloads' = Append(reloads, [phase |-> "sent", res |-> Failed, passed |-> FALSE])

(* resetForm without its setEditingId(null). *)
ResetFormKeepsId ==
    /\ formData' = EmptyForm
    /\ showModal' = FALSE
    /\ UNCHANGED editingId

(* resetForm *)
ResetForm ==
    /\ formData' = EmptyForm
    /\ editingId' = Null
    /\ showModal' = FALSE

(* useEffect(() => { loadStudents(); }, []) *)
Mount ==
    /\ ~mounted
    /\ mounted' = TRUE
    /\ LoadStudents
    /\ UNCHANGED <<facadeVars, listenVars, students, formVars, calls, notice, lastLoad>>

(* The store answers a reload's getDocs with the documents it holds then,  *)
(* or rejects it.                                                          *)
ReloadAnswer(i) ==
    /\ reloads[i].phase = "sent"
    /\ reloads' = [reloads EXCEPT ![i].phase = "answered",
                                  ![i].res = getAllDocuments(store, online)]
    /\ UNCHANGED <<facadeVars, listenVars, mounted, students, loading, formVars, calls,
                   notice, lastLoad>>

(* setStudents(data) behind a guard that drops the data of a reload a      *)
(* newer one has passed.                                                   *)
ShownUnlessPassed(r, cur) == IF r.passed THEN cur ELSE r.res.docs

(* setStudents(data): the list after reload r succeeded, cur being shown.  *)
Shown(r, cur) == r.res.docs

(* The reloads left in flight after reload i completed: the older ones     *)
(* have been passed by a reload issued after them, if i delivered data.    *)
Others(i) ==
    [j \in 1..(Len(reloads) - 1) |->
        IF j < i
        THEN [reloads[j] EXCEPT !.passed = @ \/ reloads[i].res.ok]
        ELSE reloads[j + 1]]

(* loadStudents after its await: setStudents(data), or the catch block's   *)
(* alert; finally setLoading(false).                                       *)
LoadDone(i) ==
    /\ reloads[i].phase = "answered"
    /\ IF reloads[i].res.ok
       THEN /\ students' = Shown(reloads[i], students)
            /\ lastLoad' = [done |-> TRUE, data |-> reloads[i].res.docs,
                            stale |-> reloads[i].passed]
            /\ UNCHANGED notice
       ELSE /\ notice' = "Failed to load students"
            /\ UNCHANGED <<students, lastLoad>>
    /\ loading' = FALSE
    /\ reloads' = Others(i)
    /\ UNCHANGED <<facadeVars, listenVars, mounted, formVars, calls>>

(* The Add Student button: setShowModal(true), which changes nothing when  *)
(* the modal is open already.                                              *)
AddStudent ==
    /\ mounted
    /\ ~showModal
    /\ showModal' = TRUE
    /\ UNCHANGED <<facadeVars, listenVars, mounted, students, loading, editingId, formData,
                   reloads, calls, notice, lastLoad>>

(* handleInputChange: the inputs are rendered inside the modal. *)
handleInputChange(f, v) ==
    /\ mounted
    /\ showModal
    /\ formData' = [formData EXCEPT ![f] = v]
    /\ UNCHANGED <<facadeVars, listenVars, mounted, students, loading, showModal, editingId,
                   reloads, calls, notice, lastLoad>>

(* handleEdit(student), from a row of the table (rendered when not         *)
(* loading).                                                               *)
handleEdit(i) ==
    /\ mounted
    /\ ~loading
    /\ editingId' = students[i].id
    /\ formData' = [f \in FormFields |-> students[i][f]]
    /\ showModal' = TRUE
    /\ UNCHANGED <<facadeVars, listenVars, mounted, students, loading, reloads, calls,
                   notice, lastLoad>>

(* The modal's X and Cancel buttons. *)
resetForm ==
    /\ mounted
    /\ showModal
    /\ ResetForm
    /\ UNCHANGED <<facadeVars, listenVars, mounted, students, loading, reloads, calls,
                   notice, lastLoad>>

Call(kind, w, confirmed) == [kind |-> kind, w |-> w, confirmed |-> confirmed]

(* handleSubmit up to its await.  Every input is `required`, so the        *)
(* browser submits only a form with no empty field.  The call carries the  *)
(* editingId and formData of the render it was made in.  The view holds    *)
(* the clock still: both stamps are the same reading.                      *)
handleSubmit ==
    /\ mounted
    /\ showModal
    /\ \A f \in FormFields : formData[f] # ""
    /\ InFlight < MaxInFlight
    /\ IF Truthy(editingId)
       THEN /\ calls' = calls \cup
                 {Call("submit",
                       Write("update", editingId, formData,
                             UpdatePayload(formData, now), now), FALSE)}
            /\ UNCHANGED usedIds
       ELSE /\ HasFreshId
            /\ calls' = calls \cup
                 {Call("submit",
                       Write("add", FreshId, formData,
                             StampBoth(formData, now, now), now), FALSE)}
            /\ usedIds' = usedIds \cup {FreshId}
    /\ UNCHANGED <<store, now, online, pending, created, lastEvent, listenVars, mounted,
                   students, loading, formVars, reloads, notice, lastLoad>>

(* handleSubmit's catch block with the form reset added to it. *)
SaveFailedResets ==
    /\ notice' = "Failed to save student"
    /\ ResetForm
    /\ UNCHANGED <<loading, reloads>>

(* handleSubmit's catch block. *)
SaveFailed ==
    /\ notice' = "Failed to save student"
    /\ UNCHANGED <<formVars, loading, reloads>>

(* handleSubmit after its await. *)
SubmitAnswer(c) ==
    /\ c \in calls
    /\ c.kind = "submit"
    /\ calls' = calls \ {c}
    /\ Answered(c.w, Answer(c.w))
    /\ IF Answer(c.w).ok
       THEN /\ notice' = IF c.w.op = "update" THEN "Student updated successfully!"
                                              ELSE "Student added successfully!"
            /\ ResetForm
            /\ LoadStudents
       ELSE SaveFailed
    /\ UNCHANGED <<now, online, pending, usedIds, lastEvent, callerSaw, consoleLog, mounted,
                   students, lastLoad>>

(* A handler that deletes whatever the answer to the confirmation. *)
ConfirmIgnored(answer) == TRUE

(* if (window.confirm('Are you sure you want to delete this student?')) *)
Confirmed(answer) == answer

(* handleDelete(student.id) up to its await, from a row of the table. *)
handleDelete(i, answer) ==
    /\ mounted
    /\ ~loading
    /\ notice' = IF answer THEN "confirm: OK" ELSE "confirm: Cancel"
    /\ IF Confirmed(answer)
       THEN /\ InFlight < MaxInFlight
            /\ calls' = calls \cup
                 {Call("delete", Write("delete", students[i].id, EmptyRec, EmptyRec, now),
                       answer)}
       ELSE UNCHANGED calls
    /\ UNCHANGED <<facadeVars, listenVars, mounted, students, loading, formVars, reloads,
                   lastLoad>>

(* handleDelete after its await. *)
DeleteAnswer(c) ==
    /\ c \in calls
    /\ c.kind = "delete"
    /\ calls' = calls \ {c}
    /\ Answered(c.w, Answer(c.w))
    /\ IF Answer(c.w).ok
       THEN /\ notice' = "Student deleted successfully!"
            /\ LoadStudents
       ELSE /\ notice' = "Failed to delete student"
            /\ UNCHANGED <<loading, reloads>>
    /\ UNCHANGED <<now, online, pending, usedIds, lastEvent, callerSaw, consoleLog, mounted,
                   students, formVars, lastLoad>>

vars == <<facadeVars, listenVars, viewVars>>

Init ==
    /\ store = EmptyRec
    /\ now = 0
    /\ online = TRUE
    /\ pending = {}
    /\ usedIds = {}
    /\ created = EmptyRec
    /\ lastEvent = NoEvent
    /\ mounted = FALSE
    /\ students = <<>>
    /\ loading = TRUE
    /\ showModal = FALSE
    /\ editingId = Null
    /\ formData = EmptyForm
    /\ reloads = <<>>
    /\ calls = {}
    /\ notice = "none"
    /\ lastLoad = [done |-> FALSE, data |-> <<>>, stale |-> FALSE]
    /\ listeners = [s \in SubIds |-> NoListener]
    /\ callerSaw = [s \in SubIds |-> [kind |-> "nothing", value |-> <<>>]]
    /\ consoleLog = [s \in SubIds |-> FALSE]

NextFacade ==
    \/ \E i \in 1..Len(UserData) : addDocument(UserData[i])
    \/ \E id \in DocIds, i \in 1..Len(UserData) : setDocument(id, UserData[i])
    \/ \E id \in DocIds, i \in 1..Len(UserData) : updateDocument(id, UserData[i])
    \/ \E id \in DocIds : deleteDocument(id)
    \/ \E w \in pending : StoreAnswer(w)
    \/ Tick
    \/ Transport

SpecFacade == Init /\ [][NextFacade]_vars

(* The dashboard, with the transport going down and coming back. *)
NextView ==
    \/ Mount
    \/ \E i \in 1..Len(reloads) : ReloadAnswer(i)
    \/ \E i \in 1..Len(reloads) : LoadDone(i)
    \/ AddStudent
    \/ \E f \in FormFields : \E v \in Typed(formData, f) : handleInputChange(f, v)
    \/ \E i \in 1..Len(students) : handleEdit(i)
    \/ resetForm
    \/ handleSubmit
    \/ \E c \in calls : SubmitAnswer(c)
    \/ \E i \in 1..Len(students) : \E answer \in BOOLEAN : handleDelete(i, answer)
    \/ \E c \in calls : DeleteAnswer(c)
    \/ Transport

Spec == Init /\ [][NextView]_vars

(* The listeners, with the store changed by facade writes. *)
NextListen ==
    \/ \E q \in 1..Len(ListenConds) : listenToCollection(q)
    \/ \E id \in DocIds : listenToDocument(id)
    \/ \E s \in SubIds : OnSnapshot(s)
    \/ \E s \in SubIds : OnError(s)
    \/ \E s \in SubIds : Unsubscribe(s)
    \/ addDocument(UserData[1])
    \/ \E id \in DocIds : updateDocument(id, UserData[3])
    \/ \E id \in DocIds : deleteDocument(id)
    \/ \E w \in pending : StoreAnswer(w)

SpecListen == Init /\ [][NextListen]_vars

(* =========================== facade claims ============================= *)

Range(seq) == {seq[i] : i \in 1..Len(seq)}

(* C1: while a record exists, its createdAt equals the value stamped when  *)
(* the record was created, whatever facade operations follow.              *)
C1_CreatedAtNeverModified ==
    \A id \in DOMAIN store : store[id].createdAt = created[id]

(* The store answers updateDocument(c, w.id, w.data) on an existing record *)
(* with success.                                                           *)
UpdateApplied(w) ==
    /\ StoreAnswer(w)
    /\ w.op = "update"
    /\ online
    /\ w.id \in DOMAIN store

(* Fields absent from u, updatedAt apart, keep the value they had in r. *)
FrameKept(before, after, u) ==
    /\ DOMAIN after = DOMAIN before \cup DOMAIN u \cup {"updatedAt"}
    /\ \A f \in DOMAIN before \ (DOMAIN u \cup {"updatedAt"}) : after[f] = before[f]

(* C5 as stated: after updateDocument then getDocument, every field of u   *)
(* has u's value, the other fields are r's, and updatedAt is strictly      *)
(* greater than r's previous updatedAt.                                    *)
C5_UpdateStrictlyLater ==
    [][\A w \in pending :
          UpdateApplied(w) =>
             LET before == getDocument(store, TRUE, w.id).doc
                 got    == getDocument(store', online', w.id)
             IN  /\ got.ok /\ got.found
                 /\ \A f \in DOMAIN w.data : got.doc[f] = w.data[f]
                 /\ FrameKept(before, got.doc, w.data)
                 /\ got.doc.updatedAt > before.updatedAt]_vars

(* C5 amended: after updateDocument then getDocument, every field of u     *)
(* other than updatedAt has u's value, the fields absent from u (other     *)
(* than updatedAt) are r's, and updatedAt is the clock reading the         *)
(* updateDocument call took.                                               *)
C5_UpdateMergesAndStamps ==
    [][\A w \in pending :
          UpdateApplied(w) =>
             LET before == getDocument(store, TRUE, w.id).doc
                 got    == getDocument(store', online', w.id)
             IN  /\ got.ok /\ got.found
                 /\ \A f \in DOMAIN w.data \ {"updatedAt"} : got.doc[f] = w.data[f]
                 /\ FrameKept(before, got.doc, w.data)
                 /\ got.doc.updatedAt = w.t]_vars

(* An update was just applied to a record holding a field the update did   *)
(* not name: the record has the update's name beside the id and createdAt  *)
(* fields an earlier write gave it.                                        *)
C5_Witness ==
    /\ lastEvent = [op |-> "update", ok |-> TRUE]
    /\ \E id \in DOMAIN store :
          /\ {"id", "name"} \subseteq DOMAIN store[id]
          /\ store[id].name = "a"
          /\ store[id].id = "x"
          /\ store[id].updatedAt > store[id].createdAt

(* C6: every record getAllDocuments returns carries in its id field the    *)
(* identifier under which the store holds it.                              *)
C6_IdIsStoreId ==
    LET got == getAllDocuments(store, TRUE).docs
    IN  /\ Len(got) = Cardinality(DOMAIN store)
        /\ {got[i].id : i \in 1..Len(got)} = DOMAIN store

(* C7: a subscription whose listener failed has had the caller's error     *)
(* channel invoked.                                                        *)
C7_ErrorReachesCaller ==
    \A s \in SubIds : listeners[s].status = "failed" => callerSaw[s].kind = "error"

(* C8: queryDocuments(c, []) without orderBy and limit returns the records *)
(* getAllDocuments(c) returns, and fails exactly when it fails.            *)
C8_EmptyQueryIsGetAll ==
    LET q == queryDocuments(store, online, <<>>, NoField, NoLimit)
        g == getAllDocuments(store, online)
    IN  /\ q.ok = g.ok
        /\ Len(q.docs) = Len(g.docs)
        /\ Range(q.docs) = Range(g.docs)

(* Two records are stored, and a query with a condition returns only one   *)
(* of them while the empty query returns both.                             *)
C8_Witness ==
    /\ online
    /\ Cardinality(DOMAIN store) = 2
    /\ Len(queryDocuments(store, online, ListenConds[2], NoField, NoLimit).docs) = 1
    /\ Len(queryDocuments(store, online, <<>>, NoField, NoLimit).docs) = 2

(* ============================ view claims ============================== *)

SubmitSucceeds(c) == SubmitAnswer(c) /\ Answer(c.w).ok
SubmitFails(c) == SubmitAnswer(c) /\ ~Answer(c.w).ok

(* A loadStudents call was started in this step. *)
ReloadStarted ==
    /\ Len(reloads') = Len(reloads) + 1
    /\ reloads'[Len(reloads')].phase = "sent"
    /\ loading'

(* On success the form is cleared, the editing identifier is null, the     *)
(* modal is closed and a reload is started.                                *)
SubmitSuccessEffect ==
    /\ formData' = EmptyForm
    /\ editingId' = Null
    /\ ~showModal'
    /\ ReloadStarted

(* C2 as stated: on success the form is reset and a reload starts; on      *)
(* failure a failure notification is shown, the modal is open, the form    *)
(* fields and the editing identifier are those of the submit, and no       *)
(* reload starts.                                                          *)
C2_FailureKeepsSubmittedForm ==
    [][\A c \in calls :
          /\ SubmitSucceeds(c) => SubmitSuccessEffect
          /\ SubmitFails(c) =>
                /\ notice' = "Failed to save student"
                /\ showModal'
                /\ formData' = c.w.data
                /\ editingId' = (IF c.w.op = "update" THEN c.w.id ELSE Null)
                /\ reloads' = reloads]_vars

(* C2 amended: on success the form is reset and a reload starts; on        *)
(* failure a failure notification is shown, no reload starts, and the      *)
(* modal's visibility, the form fields and the editing identifier are left *)
(* as they were when the failure arrived.                                  *)
C2_FailureLeavesFormAlone ==
    [][\A c \in calls :
          /\ SubmitSucceeds(c) => SubmitSuccessEffect
          /\ SubmitFails(c) =>
                /\ notice' = "Failed to save student"
                /\ showModal' = showModal
                /\ formData' = formData
                /\ editingId' = editingId
                /\ reloads' = reloads]_vars

(* A save has just failed with the modal open and the form filled in. *)
C2_Witness ==
    /\ notice = "Failed to save student"
    /\ showModal
    /\ \A f \in FormFields : formData[f] # ""

(* C3: cancelling the confirmation issues no deleteDocument call, starts   *)
(* no reload and leaves the row in the store, so a reload returns it; and  *)
(* every deleteDocument call in flight follows an accepted confirmation.   *)
C3_CancelDeletesNothing ==
    /\ [][\A i \in 1..Len(students) :
             handleDelete(i, FALSE) =>
                /\ calls' = calls
                /\ reloads' = reloads
                /\ store' = store
                /\ students[i].id \in DOMAIN store =>
                      \E k \in 1..Len(getAllDocuments(store', TRUE).docs) :
                         getAllDocuments(store', TRUE).docs[k].id = students[i].id]_vars
    /\ [](\A c \in calls : c.kind = "delete" => c.confirmed)

(* The confirmation of a delete on a stored row was just cancelled. *)
C3_Witness ==
    /\ notice = "confirm: Cancel"
    /\ calls = {}
    /\ reloads = <<>>
    /\ \E i \in 1..Len(students) : students[i].id \in DOMAIN store

(* C4: the list shown is the data of the reload that completed last,       *)
(* whatever the order the reloads were issued in.                          *)
C4_LastCompletedReloadWins ==
    students = IF lastLoad.done THEN lastLoad.data ELSE <<>>

(* Every reload has completed, the one that completed last was issued      *)
(* before one that completed earlier, and the list shown is its snapshot,  *)
(* which is not what the store holds.                                      *)
C4_Witness ==
    /\ reloads = <<>>
    /\ calls = {}
    /\ lastLoad.done
    /\ lastLoad.stale
    /\ students = lastLoad.data
    /\ students # getAllDocuments(store, TRUE).docs

(* C9: the loading flag is true whenever a reload is in flight, and false  *)
(* once the view is mounted and none is.                                   *)
C9_LoadingIffReloadInFlight ==
    /\ Len(reloads) > 0 => loading
    /\ (mounted /\ Len(reloads) = 0) => ~loading

(* C10: while the modal is closed the editing identifier is null and the   *)
(* five form fields are empty.                                             *)
C10_ClosedModalIsClean ==
    ~showModal => (editingId = Null /\ formData = EmptyForm)

(* The modal is closed after a row was edited and its update saved. *)
C10_Witness ==
    /\ mounted
    /\ ~showModal
    /\ notice = "Student updated successfully!"
    /\ Len(students) > 0

====
